---- MODULE Spec2Model ----
(***************************************************************************)
(* State-machine model of biofam/core/nodes/Z_nodes.py: the Gaussian       *)
(* latent-factor node (Z_Node) and the spike-and-slab latent-factor node   *)
(* (SZ_Node), their updateParameters / _updateParameters, get_mini_batch   *)
(* and removeFactors.                                                      *)
(*                                                                         *)
(* Arrays are sequences of rows, rows are sequences of numbers, indices    *)
(* are 1-based (row n of the model is row n-1 of the code).  Numbers are   *)
(* exact rationals <<numerator, denominator>> in lowest terms with a       *)
(* positive denominator: float64 rounding, overflow and NaN are outside    *)
(* the model.                                                              *)
(***************************************************************************)
EXTENDS Integers, Sequences, FiniteSets, TLC

(* ------------------------------ bounds --------------------------------- *)
NRows == 2       \* N = dim[0], number of samples
KInit == 2       \* K = dim[1] at construction, number of factors
MViews == 2      \* M = len(Y), number of views
DFeat == 2       \* D, number of features of every view
MaxCalls == 2    \* number of calls made on the node in one behaviour

(* --------------------------- rational numbers -------------------------- *)
RECURSIVE GCD(_, _)
GCD(a, b) == IF b = 0 THEN a ELSE GCD(b, a % b)

Abs(a) == IF a < 0 THEN -a ELSE a

Rat(n, d) ==
    LET s == IF d < 0 THEN -1 ELSE 1
        g == GCD(Abs(n), Abs(d))
    IN  <<(s * n) \div g, (s * d) \div g>>

R(i) == <<i, 1>>
Zero == R(0)
One == R(1)
Half == <<1, 2>>

RAdd(x, y) ==
    LET g == GCD(x[2], y[2])
    IN  Rat(x[1] * (y[2] \div g) + y[1] * (x[2] \div g), (x[2] \div g) * y[2])
RNeg(x) == <<-x[1], x[2]>>
RSub(x, y) == RAdd(x, RNeg(y))
RMul(x, y) ==
    LET g == GCD(Abs(x[1]), y[2])
        h == GCD(Abs(y[1]), x[2])
    IN  Rat((x[1] \div g) * (y[1] \div h), (x[2] \div h) * (y[2] \div g))
RInv(x) == Rat(x[2], x[1])
RDiv(x, y) == RMul(x, RInv(y))
RSquare(x) == RMul(x, x)
RPos(x) == x[1] > 0

RECURSIVE RSum(_)
RSum(s) == IF s = <<>> THEN Zero ELSE RAdd(Head(s), RSum(Tail(s)))

\* evaluate v once and use the value in F
Bind(v, F(_)) == CHOOSE r \in {F(x) : x \in {v}} : TRUE

(* ------------------------------ arrays --------------------------------- *)
Full(n, k, x) == [i \in 1..n |-> [j \in 1..k |-> x]]
MapArr(Op(_), A) == [i \in DOMAIN A |-> [j \in DOMAIN A[i] |-> Op(A[i][j])]]
Map2(Op(_, _), A, B) ==
    [i \in DOMAIN A |-> [j \in DOMAIN A[i] |-> Op(A[i][j], B[i][j])]]

\* A[ix, :] with ix a list of row indices: a copy of the rows, in ix order
Restrict(A, ix) == [i \in 1..Len(ix) |-> A[ix[i]]]

\* A[ix, :] = B: row ix[i] of A becomes row i of B (the last i wins)
SetRows(A, ix, B) ==
    [n \in DOMAIN A |->
        IF \E i \in DOMAIN ix : ix[i] = n
        THEN B[CHOOSE i \in DOMAIN ix :
                  ix[i] = n /\ \A j \in DOMAIN ix : ix[j] = n => j <= i]
        ELSE A[n]]

\* the columns that survive the deletion of the columns idx, ascending
Kept(K, idx) ==
    LET S == (1..K) \ idx
    IN  [j \in 1..Cardinality(S) |->
            CHOOSE c \in S : Cardinality({x \in S : x < c}) = j - 1]

\* numpy.delete(A, idx, axis=1)
DelCols(A, idx) ==
    [n \in DOMAIN A |->
        LET keep == Kept(Len(A[n]), idx)
        IN  [j \in DOMAIN keep |-> A[n][keep[j]]]]

AllRows == [i \in 1..NRows |-> i]
InRange(ix) == \A i \in DOMAIN ix : ix[i] \in 1..NRows

(* ------------------------------- state --------------------------------- *)
VARIABLES
    kind,        \* "Z" (Z_Node) or "SZ" (SZ_Node): the class of the node
    blanket,     \* self.markov_blanket: the neighbor roles present
    nbr,         \* what the neighbors hold: W, Y, tau, mask, MuZ, AlphaZ, lnE, lnEInv
    dim,         \* self.dim = <<N, K>>
    P,           \* self.P parameters
    Q,           \* self.Q parameters
    mini_batch,  \* self.mini_batch
    last,        \* history: the most recent call on the node and what it read
    calls        \* history: number of calls made so far

vars == <<kind, blanket, nbr, dim, P, Q, mini_batch, last, calls>>

\* self.mini_batch = None, and self.mini_batch = {} (line 67 / 207)
NoneMB == [tag |-> "None"]
EmptyMB == [tag |-> "empty"]

(* --------------------------- neighbor nodes ---------------------------- *)
\* get_mini_batch() of a minibatch-aware neighbor: its full array in a
\* full-batch iteration, the rows of the minibatch in a stochastic one
NbrMiniBatch(A, full, ix) == IF full THEN A ELSE Restrict(A, ix)

NbrViews(Vs, full, ix) == [m \in DOMAIN Vs |-> NbrMiniBatch(Vs[m], full, ix)]

\* tau[m][mask[m]] = 0.   (lines 72-73 and 214-215)
Unmasked(tauM, maskM) == tauM

Masked(tauM, maskM) ==
    [n \in DOMAIN tauM |->
        [d \in DOMAIN tauM[n] |-> IF maskM[n][d] THEN Zero ELSE tauM[n][d]]]

MaskAll(tau, mask) == [m \in DOMAIN tau |-> Masked(tau[m], mask[m])]

\* the Tau node's array after the call: masked in place by a full-batch
\* call, which gets the array itself; a minibatch is a separate array
TauAfter(full) == IF full THEN MaskAll(nbr.tau, nbr.mask) ELSE nbr.tau

(* ----------------------- Q distribution (base class) ------------------- *)
\* Z: E = mean, E2 = mean^2 + var
ZExpectations(q) ==
    [E |-> q.mean,
     E2 |-> Map2(LAMBDA m, v : RAdd(RSquare(m), v), q.mean, q.var)]

\* SZ: EB = theta, E = theta * mean_B1, E2 = theta * (mean_B1^2 + var_B1),
\* ENN = E2 + (1 - theta) * (mean_B0^2 + var_B0)
SZMoments(theta, mean1, var1, var0) ==
    LET on == Map2(LAMBDA m, v : RAdd(RSquare(m), v), mean1, var1)
        e2 == Map2(RMul, theta, on)
        off == Map2(LAMBDA t, v : RMul(RSub(One, t), v), theta, var0)
    IN  [EB |-> theta,
         E |-> Map2(RMul, theta, mean1),
         E2 |-> e2,
         ENN |-> Map2(RAdd, e2, off)]

SZExpectations(q) == SZMoments(q.theta, q.mean_B1, q.var_B1, q.var_B0)

Expectations(knd, q) == IF knd = "Z" THEN ZExpectations(q) ELSE SZExpectations(q)

getExpectations == Expectations(kind, Q)

\* get_mini_batch (lines 30-35 and 172-176) of a node whose mini_batch is mb
\* and whose Q is q
GetMiniBatch(knd, mb, q) == IF mb = NoneMB THEN Expectations(knd, q) ELSE mb

get_mini_batch == GetMiniBatch(kind, mini_batch, Q)

(* ------------------------ Z_Node._updateParameters --------------------- *)
Col(A, k) == [n \in DOMAIN A |-> A[n][k]]
SetCol(A, k, c) == [n \in DOMAIN A |-> [A[n] EXCEPT ![k] = c[n]]]

\* Qmean[:, s.arange(self.dim[1]) != k]: the copy of the other columns taken
\* at factor k from the array the loop writes into (line 108)
ZOthersAtEntry(k, st) ==
    LET keep == Kept(dim[2], {k})
    IN  [j \in DOMAIN keep |-> Col(st.start, keep[j])]

ZOthers(k, st) ==
    LET keep == Kept(dim[2], {k})
    IN  [j \in DOMAIN keep |-> Col(st.Qmean, keep[j])]

\* one turn of the loop over k (lines 98-118)
ZFactor(k, inp, st) ==
    LET rows == DOMAIN inp.Y[1]
        M == Len(inp.Y)
        keep == Kept(dim[2], {k})
        fooView(m) ==
            [n \in rows |->
                RSum([d \in DOMAIN inp.tau[m][n] |->
                        RMul(inp.tau[m][n][d], inp.W[m].E2[d][k])])]
        resid(others, m, n, d) ==
            RSub(inp.Y[m][n][d],
                 RSum([j \in DOMAIN keep |->
                         RMul(others[j][n], inp.W[m].E[d][keep[j]])]))
        barView(others, m) ==
            [n \in rows |->
                RSum([d \in DOMAIN inp.tau[m][n] |->
                        RMul(RMul(resid(others, m, n, d), inp.tau[m][n][d]),
                             inp.W[m].E[d][k])])]
        foo(views, n) == RSum([m \in 1..M |-> views[m].prec[n]])
        bar(views, n) == RSum([m \in 1..M |-> views[m].num[n]])
    IN  Bind(ZOthers(k, st), LAMBDA others :
        Bind([m \in 1..M |-> [prec |-> fooView(m), num |-> barView(others, m)]],
             LAMBDA views :
        Bind([n \in rows |-> RInv(RAdd(inp.Alpha[n][k], foo(views, n)))],
             LAMBDA var :
        Bind([n \in rows |->
                 RMul(var[n], RAdd(bar(views, n),
                                   RMul(inp.Alpha[n][k], inp.Mu[n][k])))],
             LAMBDA mean :
            [Qmean |-> SetCol(st.Qmean, k, mean),
             Qvar |-> SetCol(st.Qvar, k, var),
             start |-> st.start,
             reads |-> Append(st.reads, others),
             acc |-> Append(st.acc, views)]))))

RECURSIVE ZLoop(_, _, _)
ZLoop(k, inp, st) ==
    IF k > dim[2] THEN st
    ELSE Bind(ZFactor(k, inp, st), LAMBDA nxt : ZLoop(k + 1, inp, nxt))

Z_updateParameters(inp, Qmean, Qvar) ==
    ZLoop(1, inp, [Qmean |-> Qmean, Qvar |-> Qvar, start |-> Qmean,
                   reads |-> <<>>, acc |-> <<>>])

(* ------------------------ Z_Node.updateParameters ---------------------- *)
Failed(mb) ==
    [status |-> "failed", Q |-> Q, mini_batch |-> mb, tau |-> nbr.tau,
     start |-> <<>>, reads |-> <<>>, acc |-> <<>>]

\* "Update parameters" (lines 79-87): Q['mean'], Q['var'] after the call
ZWriteBackBlend(full, ix, q, par_up, ro) ==
    LET blend(old, new) == RAdd(RMul(RSub(One, ro), old), RMul(ro, new))
        rows == IF full THEN AllRows ELSE ix
    IN  [mean |-> SetRows(q.mean, rows,
                          Map2(blend, Restrict(q.mean, rows), par_up.Qmean)),
         var |-> SetRows(q.var, rows,
                         Map2(blend, Restrict(q.var, rows), par_up.Qvar))]

ZWriteBackNoVar(full, ix, q, par_up, ro) ==
    IF full
    THEN [mean |-> par_up.Qmean, var |-> par_up.Qvar]
    ELSE [mean |-> SetRows(q.mean, ix, par_up.Qmean), var |-> q.var]

ZWriteBackSwapped(full, ix, q, par_up, ro) ==
    IF full
    THEN [mean |-> par_up.Qmean, var |-> par_up.Qvar]
    ELSE [mean |-> SetRows(q.mean, ix, par_up.Qmean),
          var |-> SetRows(q.var, ix, par_up.Qmean)]

ZWriteBack(full, ix, q, par_up, ro) ==
    IF full
    THEN [mean |-> par_up.Qmean, var |-> par_up.Qvar]
    ELSE [mean |-> SetRows(q.mean, ix, par_up.Qmean),
          var |-> SetRows(q.var, ix, par_up.Qvar)]

\* self.mini_batch after a call that reached line 83: the cache of a
\* stochastic call, and whatever it was before in a full-batch call
ZCache(full, par_up) ==
    IF full
    THEN mini_batch
    ELSE [tag |-> "cache",
          E |-> par_up.Qmean,
          E2 |-> Map2(LAMBDA m, v : RAdd(RSquare(m), v), par_up.Qmean, par_up.Qvar)]

\* the inputs of line 76, gathered by lines 46-73
ZInputs(full, ix) ==
    [W |-> nbr.W,
     Y |-> NbrViews(nbr.Y, full, ix),
     tau |-> MaskAll(NbrViews(nbr.tau, full, ix), NbrViews(nbr.mask, full, ix)),
     Mu |-> IF "MuZ" \in blanket
            THEN NbrMiniBatch(nbr.MuZ, full, ix)
            ELSE IF full THEN P.mean ELSE Restrict(P.mean, ix),
     Alpha |-> IF "AlphaZ" \in blanket
               THEN NbrMiniBatch(nbr.AlphaZ, full, ix)
               ELSE IF full THEN MapArr(RInv, P.var)
                            ELSE Restrict(MapArr(RInv, P.var), ix)]

\* updateParameters(ix, ro) of Z_Node (lines 37-89); full stands for ix=None
ZUpdate(full, ix, ro) ==
    IF ~({"W", "Y", "Tau"} \subseteq blanket)
    THEN Failed(mini_batch)                            \* KeyError, lines 46-49
    ELSE IF ~full /\ ~InRange(ix) /\ ~({"MuZ", "AlphaZ"} \subseteq blanket)
    THEN Failed(mini_batch)                            \* IndexError, line 55 or 61
    ELSE IF ~full /\ ~InRange(ix)
    THEN Failed(EmptyMB)                               \* IndexError, line 68
    ELSE
        Bind(ZInputs(full, ix), LAMBDA inp :
        Bind(Z_updateParameters(inp,
                                IF full THEN Q.mean ELSE Restrict(Q.mean, ix),
                                IF full THEN Q.var ELSE Restrict(Q.var, ix)),
             LAMBDA par_up :
            [status |-> "ok",
             Q |-> ZWriteBack(full, ix, Q, par_up, ro),
             mini_batch |-> ZCache(full, par_up),
             tau |-> TauAfter(full),
             start |-> par_up.start,
             reads |-> par_up.reads,
             acc |-> par_up.acc]))

(* ----------------------- SZ_Node._updateParameters --------------------- *)
\* s.log and the logistic function 1/(1+exp(-x)) have no rational values.
\* Ln is the Pade approximant 2(x-1)/(x+1) of the logarithm at 1 (increasing,
\* Ln(1) = 0, Ln(1/x) = -Ln(x)); Sigmoid is the logistic function quantised
\* to its saturation values: 1 above zero, 0 below zero, 1/2 at zero.
Ln(x) == RDiv(RMul(R(2), RSub(x, One)), RAdd(x, One))

Sigmoid(x) == IF RPos(x) THEN One ELSE IF x = Zero THEN Half ELSE Zero

\* SZ[:, s.arange(self.dim[1]) != k]: the copy of the other columns taken at
\* factor k from the array the loop writes into (line 268)
SZOthersAtEntry(k, st) ==
    LET keep == Kept(dim[2], {k})
    IN  [j \in DOMAIN keep |-> Col(st.start, keep[j])]

SZOthers(k, st) ==
    LET keep == Kept(dim[2], {k})
    IN  [j \in DOMAIN keep |-> Col(st.SZ, keep[j])]

\* factor k: its share of the precomputed terms (lines 250-258) and one turn
\* of the loop over k (lines 261-286)
SZFactor(k, inp, st) ==
    LET rows == DOMAIN st.mean
        M == Len(inp.Y)
        keep == Kept(dim[2], {k})
        t1View(m) ==
            [n \in rows |->
                RSum([d \in DOMAIN inp.tau[m][n] |->
                        RMul(RMul(inp.tau[m][n][d], inp.Y[m][n][d]),
                             inp.W[m].E[d][k])])]
        t3View(m) ==
            [n \in rows |->
                RSum([d \in DOMAIN inp.tau[m][n] |->
                        RMul(inp.tau[m][n][d], inp.W[m].E2[d][k])])]
        t2View(others, m) ==
            [n \in rows |->
                RSum([d \in DOMAIN inp.tau[m][n] |->
                        RMul(inp.tau[m][n][d],
                             RSum([j \in DOMAIN keep |->
                                     RMul(others[j][n],
                                          RMul(inp.W[m].E[d][k],
                                               inp.W[m].E[d][keep[j]]))]))])]
        term1(n) == RSub(inp.lnE[n][k], inp.lnEInv[n][k])
        term2(n) == RMul(Half, Ln(inp.Alpha[n][k]))
        term3(t3, n) == RMul(Half, Ln(t3[n]))
        term4(t12, t3, n) == RMul(Half, RDiv(RSquare(t12[n]), t3[n]))
    IN  Bind(SZOthers(k, st), LAMBDA others :
        Bind([m \in 1..M |->
                 [prec |-> t3View(m), num |-> t1View(m), cross |-> t2View(others, m)]],
             LAMBDA views :
        Bind([n \in rows |->
                 RSub(RSum([m \in 1..M |-> views[m].num[n]]),
                      RSum([m \in 1..M |-> views[m].cross[n]]))],
             LAMBDA t12 :
        Bind([n \in rows |->
                 RAdd(RSum([m \in 1..M |-> views[m].prec[n]]), inp.Alpha[n][k])],
             LAMBDA t3 :
        Bind([n \in rows |->
                 Sigmoid(RAdd(RSub(RAdd(term1(n), term2(n)), term3(t3, n)),
                              term4(t12, t3, n)))],
             LAMBDA theta :
        Bind([n \in rows |-> RInv(t3[n])], LAMBDA var :
        Bind([n \in rows |-> RMul(var[n], t12[n])], LAMBDA mean :
            [mean |-> SetCol(st.mean, k, mean),
             var |-> SetCol(st.var, k, var),
             theta |-> SetCol(st.theta, k, theta),
             SZ |-> SetCol(st.SZ, k, [n \in rows |-> RMul(theta[n], mean[n])]),
             start |-> st.start,
             reads |-> Append(st.reads, others),
             acc |-> Append(st.acc, views)])))))))

RECURSIVE SZLoop(_, _, _)
SZLoop(k, inp, st) ==
    IF k > dim[2] THEN st
    ELSE Bind(SZFactor(k, inp, st), LAMBDA nxt : SZLoop(k + 1, inp, nxt))

SZ_updateParameters(inp, Qmean_T1, Qvar_T1, Qtheta, SZ) ==
    SZLoop(1, inp, [mean |-> Qmean_T1, var |-> Qvar_T1, theta |-> Qtheta,
                    SZ |-> SZ, start |-> SZ, reads |-> <<>>, acc |-> <<>>])

(* ----------------------- SZ_Node.updateParameters ---------------------- *)
\* "Update the parameters" and setParameters (lines 221-239): Q after the call
SZWriteBackPositional(full, ix, q, par_up, Alpha) ==
    IF full
    THEN [mean_B0 |-> Full(dim[1], dim[2], Zero),
          var_B0 |-> MapArr(RInv, Alpha),
          mean_B1 |-> par_up.mean,
          var_B1 |-> par_up.var,
          theta |-> par_up.theta]
    ELSE LET first == [i \in DOMAIN ix |-> i]
         IN  [mean_B0 |-> Full(dim[1], dim[2], Zero),
              var_B0 |-> SetRows(q.var_B0, first, MapArr(RInv, Alpha)),
              mean_B1 |-> SetRows(q.mean_B1, first, par_up.mean),
              var_B1 |-> SetRows(q.var_B1, first, par_up.var),
              theta |-> SetRows(q.theta, first, par_up.theta)]

SZWriteBack(full, ix, q, par_up, Alpha) ==
    IF full
    THEN [mean_B0 |-> Full(dim[1], dim[2], Zero),
          var_B0 |-> MapArr(RInv, Alpha),
          mean_B1 |-> par_up.mean,
          var_B1 |-> par_up.var,
          theta |-> par_up.theta]
    ELSE [mean_B0 |-> Full(dim[1], dim[2], Zero),
          var_B0 |-> SetRows(q.var_B0, ix, MapArr(RInv, Alpha)),
          mean_B1 |-> SetRows(q.mean_B1, ix, par_up.mean),
          var_B1 |-> SetRows(q.var_B1, ix, par_up.var),
          theta |-> SetRows(q.theta, ix, par_up.theta)]

\* self.mini_batch after a call that reached line 232
SZCache(full, par_up, Alpha) ==
    IF full
    THEN mini_batch
    ELSE [tag |-> "cache"] @@
         SZMoments(par_up.theta, par_up.mean, par_up.var, MapArr(RInv, Alpha))

\* the inputs of line 218, gathered by lines 187-215
SZInputs(full, ix) ==
    [W |-> nbr.W,
     Y |-> NbrViews(nbr.Y, full, ix),
     tau |-> MaskAll(NbrViews(nbr.tau, full, ix), NbrViews(nbr.mask, full, ix)),
     Alpha |-> IF "AlphaZ" \in blanket
               THEN NbrMiniBatch(nbr.AlphaZ, full, ix)
               ELSE IF full THEN MapArr(RInv, P.var_B1)
                            ELSE Restrict(MapArr(RInv, P.var_B1), ix),
     lnE |-> NbrMiniBatch(nbr.lnE, full, ix),
     lnEInv |-> NbrMiniBatch(nbr.lnEInv, full, ix)]

\* updateParameters(ix, ro) of SZ_Node (lines 178-239); full stands for ix=None
SZUpdate(full, ix, ro) ==
    IF ~({"W", "Y", "Tau"} \subseteq blanket)
    THEN Failed(mini_batch)                            \* KeyError, lines 187-190
    ELSE IF ~full /\ ~InRange(ix) /\ "AlphaZ" \notin blanket
    THEN Failed(mini_batch)                            \* IndexError, line 197
    ELSE IF "ThetaZ" \notin blanket
    THEN Failed(mini_batch)                            \* KeyError, line 199
    ELSE IF ~full /\ ~InRange(ix)
    THEN Failed(EmptyMB)                               \* IndexError, line 208
    ELSE
        LET pick(A) == IF full THEN A ELSE Restrict(A, ix)
        IN  Bind(SZInputs(full, ix), LAMBDA inp :
            Bind(SZ_updateParameters(inp, pick(Q.mean_B1), pick(Q.var_B1),
                                     pick(Q.theta), pick(SZExpectations(Q).E)),
                 LAMBDA par_up :
                [status |-> "ok",
                 Q |-> SZWriteBack(full, ix, Q, par_up, inp.Alpha),
                 mini_batch |-> SZCache(full, par_up, inp.Alpha),
                 tau |-> TauAfter(full),
                 start |-> par_up.start,
                 reads |-> par_up.reads,
                 acc |-> par_up.acc]))

(* ------------------------- construction: Init -------------------------- *)
\* sparse loadings: feature 1 of view 1 loads on every factor, feature 2 of
\* view 2 on factor 1, nothing else loads; second moment E^2
WE(m, d, k) ==
    IF m = 1 /\ d = 1 THEN (IF k % 2 = 0 THEN -1 ELSE 1)
    ELSE IF m = 2 /\ d = 2 /\ k = 1 THEN 1
    ELSE 0

W0 ==
    [m \in 1..MViews |->
        [E |-> [d \in 1..DFeat |-> [k \in 1..KInit |-> R(WE(m, d, k))]],
         E2 |-> [d \in 1..DFeat |->
                    [k \in 1..KInit |-> R(WE(m, d, k) * WE(m, d, k))]]]]

YChoices ==
    {[m \in 1..MViews |->
        [n \in 1..NRows |->
            [d \in 1..DFeat |-> R(((m + 2 * n + d + s) % 3) - 1)]]] : s \in {0, 1}}

Tau0 == [m \in 1..MViews |-> Full(NRows, DFeat, One)]

\* no missing observation; or row 1 of view 1 missing in every feature and
\* row N of the last view missing in feature 1
MaskChoices ==
    {[m \in 1..MViews |->
        [n \in 1..NRows |->
            [d \in 1..DFeat |->
                c /\ ((m = 1 /\ n = 1) \/ (m = MViews /\ n = NRows /\ d = 1))]]]
     : c \in BOOLEAN}

Blankets(knd) ==
    LET must == IF knd = "Z" THEN {"W", "Y", "Tau"} ELSE {"W", "Y", "Tau", "ThetaZ"}
        may == IF knd = "Z" THEN {"MuZ", "AlphaZ"} ELSE {"AlphaZ"}
    IN  {must \cup o : o \in SUBSET may}
        \cup {(must \cup may) \ {r} : r \in {"W", "Y", "Tau"}}

Q0mean == [n \in 1..NRows |-> [k \in 1..KInit |-> R(n - k)]]

NoCall ==
    [op |-> "init", ok |-> TRUE, full |-> TRUE, ix |-> <<>>, ro |-> One,
     idx |-> {}, mode |-> "none", start |-> <<>>, reads |-> <<>>, acc |-> <<>>]

Init ==
    /\ kind \in {"Z", "SZ"}
    /\ blanket \in Blankets(kind)
    /\ \E y \in YChoices, msk \in MaskChoices :
          nbr = [W |-> W0, Y |-> y, tau |-> Tau0, mask |-> msk,
                 MuZ |-> Full(NRows, KInit, R(-1)),
                 AlphaZ |-> [n \in 1..NRows |->
                               [k \in 1..KInit |-> IF k = 1 THEN One ELSE R(2)]],
                 lnE |-> Full(NRows, KInit, R(-1)),
                 lnEInv |-> [n \in 1..NRows |->
                               [k \in 1..KInit |-> IF k % 2 = 1 THEN R(-2) ELSE R(-1)]]]
    /\ dim = <<NRows, KInit>>
    /\ P = IF kind = "Z"
           THEN [mean |-> Full(NRows, KInit, One), var |-> Full(NRows, KInit, One)]
           ELSE [var_B1 |-> Full(NRows, KInit, One)]
    /\ Q = IF kind = "Z"
           THEN [mean |-> Q0mean, var |-> Full(NRows, KInit, One)]
           ELSE [mean_B0 |-> Full(NRows, KInit, Zero),
                 var_B0 |-> Full(NRows, KInit, One),
                 mean_B1 |-> Q0mean,
                 var_B1 |-> Full(NRows, KInit, One),
                 theta |-> Full(NRows, KInit, Half)]
    /\ mini_batch = NoneMB
    /\ last = NoCall
    /\ calls = 0

(* ------------------------------ the calls ------------------------------ *)
Ros == {One, Half}

\* minibatches: the first row, the last row, every row in order, and one
\* that leaves the array
IxChoices == {<<1>>, <<NRows>>, AllRows, <<NRows + 1>>}

CallChoices ==
    {[full |-> TRUE, ix |-> <<>>]} \cup {[full |-> FALSE, ix |-> i] : i \in IxChoices}

Call(c, ro) ==
    /\ calls < MaxCalls
    /\ \E r \in {IF kind = "Z" THEN ZUpdate(c.full, c.ix, ro)
                               ELSE SZUpdate(c.full, c.ix, ro)} :
          /\ Q' = r.Q
          /\ mini_batch' = r.mini_batch
          /\ nbr' = [nbr EXCEPT !.tau = r.tau]
          /\ last' = [op |-> "updateParameters", ok |-> r.status = "ok",
                      full |-> c.full, ix |-> c.ix, ro |-> ro, idx |-> {},
                      mode |-> IF r.status # "ok" THEN last.mode
                               ELSE IF c.full THEN "full" ELSE "stochastic",
                      start |-> r.start, reads |-> r.reads, acc |-> r.acc]
    /\ calls' = calls + 1
    /\ UNCHANGED <<kind, blanket, dim, P>>

\* updateParameters(ix) with the default step size (ro=1. at line 37)
updateParameters == \E c \in CallChoices : Call(c, One)

\* updateParameters(ix, ro) with the step size given
updateParametersRo == \E c \in CallChoices, ro \in Ros : Call(c, ro)

\* removeFactors(idx) (lines 25-28 and 167-170): the base class deletes the
\* columns idx of every array of P and Q and shrinks dim[1]; the training
\* loop prunes the factor axis of the neighbors in the same step
removeFactors ==
    /\ calls < MaxCalls
    /\ \E idx \in SUBSET (1..dim[2]) \ {{}} :
          /\ P' = [f \in DOMAIN P |-> DelCols(P[f], idx)]
          /\ Q' = [f \in DOMAIN Q |-> DelCols(Q[f], idx)]
          /\ dim' = <<dim[1], dim[2] - Cardinality(idx)>>
          /\ nbr' = [nbr EXCEPT
                        !.W = [m \in DOMAIN nbr.W |->
                                  [E |-> DelCols(nbr.W[m].E, idx),
                                   E2 |-> DelCols(nbr.W[m].E2, idx)]],
                        !.MuZ = DelCols(nbr.MuZ, idx),
                        !.AlphaZ = DelCols(nbr.AlphaZ, idx),
                        !.lnE = DelCols(nbr.lnE, idx),
                        !.lnEInv = DelCols(nbr.lnEInv, idx)]
          /\ last' = [NoCall EXCEPT !.op = "removeFactors", !.idx = idx,
                                    !.mode = last.mode]
    /\ mini_batch' = mini_batch
    /\ calls' = calls + 1
    /\ UNCHANGED <<kind, blanket>>

Next == updateParameters \/ removeFactors

Spec == Init /\ [][Next]_vars

\* a Z node with every mandatory neighbor and no missing observation,
\* called with explicit step sizes
InitZ ==
    /\ Init
    /\ kind = "Z"
    /\ {"W", "Y", "Tau"} \subseteq blanket
    /\ \A m \in 1..MViews, n \in 1..NRows, d \in 1..DFeat : ~nbr.mask[m][n][d]

NextRo == updateParametersRo \/ removeFactors

SpecRo == InitZ /\ [][NextRo]_vars

(* ============================== properties ============================= *)
\* the step just taken was an updateParameters call / a removeFactors call
UpdateStep == calls' = calls + 1 /\ last'.op = "updateParameters"
RemoveStep == calls' = calls + 1 /\ last'.op = "removeFactors"

\* the rows the most recent call worked on (ix=None: every row)
RowsOf(l) == IF l.full THEN AllRows ELSE l.ix
StrictSubset(ix) == {ix[i] : i \in DOMAIN ix} # 1..NRows

\* C1: for a Z-node and an SZ-node, whenever the most recent updateParameters
\* call was a full-batch call (ix=None), mini_batch is None and
\* get_mini_batch() returns the node's full current expectations.
C1_FullBatchMode ==
    last.mode = "full" =>
        mini_batch = NoneMB /\ get_mini_batch = getExpectations

\* C2: after removeFactors(idx) on a node with K factors, dim[1] = K - |idx|,
\* every factor-axis array of the node (P, Q, the derived expectations, the
\* cached expectations returned by get_mini_batch()) has dim[1] columns, and
\* each remaining factor keeps its values and moves down by the number of
\* removed factors below it.
ArraysOf(rec) == {rec[f] : f \in DOMAIN rec \ {"tag"}}

C2_PruneAligned ==
    [][RemoveStep =>
        LET idx == last'.idx
            shift(c) == c - Cardinality({x \in idx : x < c})
        IN  /\ dim'[2] = dim[2] - Cardinality(idx)
            /\ \A A \in ArraysOf(P') \cup ArraysOf(Q')
                        \cup ArraysOf(Expectations(kind, Q'))
                        \cup ArraysOf(GetMiniBatch(kind, mini_batch', Q')) :
                  \A n \in DOMAIN A : Len(A[n]) = dim'[2]
            /\ \A f \in DOMAIN Q, n \in 1..NRows, c \in (1..dim[2]) \ idx :
                  Q'[f][n][shift(c)] = Q[f][n][c]
            /\ \A f \in DOMAIN P, n \in 1..NRows, c \in (1..dim[2]) \ idx :
                  P'[f][n][shift(c)] = P[f][n][c]]_vars

\* C3: from the same node state and neighbor inputs, updateParameters with
\* ix = all rows 0..N-1 in order leaves the same posterior parameters Q as
\* the full-batch call updateParameters(ix=None).
C3_FullIndexSetEquivalence ==
    [][(UpdateStep /\ last'.ok /\ ~last'.full /\ last'.ix = AllRows) =>
        Q' = (IF kind = "Z" THEN ZUpdate(TRUE, <<>>, last'.ro)
                            ELSE SZUpdate(TRUE, <<>>, last'.ro)).Q]_vars

C3_Witness ==
    /\ last.op = "updateParameters" /\ last.ok
    /\ ~last.full /\ last.ix = AllRows
    /\ dim[2] >= 2
    /\ calls >= 2

\* C4: for a Z-node, after any updateParameters call (full-batch or
\* stochastic) Qvar[n,k] > 0 for all rows n and factors k; rows outside ix
\* keep their previous positive variance.
C4_VariancePositive ==
    kind = "Z" => \A n \in DOMAIN Q.var : \A k \in DOMAIN Q.var[n] : RPos(Q.var[n][k])

C4_Witness ==
    /\ kind = "Z" /\ last.op = "updateParameters" /\ last.ok
    /\ ~last.full /\ StrictSubset(last.ix)
    /\ \E n \in DOMAIN Q.var : \E k \in DOMAIN Q.var[n] : Q.var[n][k] # One
    /\ \E n \in DOMAIN Q.mean : \E k \in DOMAIN Q.mean[n] : ~RPos(Q.mean[n][k])

\* C5: in the Z and SZ updates every entry the mask of Y marks invalid has
\* its noise precision set to zero before the update is computed: if all
\* entries of row n in view m are masked, view m adds zero to row n's
\* precision accumulation (foo / t3) and to row n's mean-numerator
\* accumulation (bar / t1 and t2) for every factor k.
RowMasked(m, n) == \A d \in DOMAIN nbr.mask[m][n] : nbr.mask[m][n][d]

C5_MaskedRowsContributeZero ==
    (last.op = "updateParameters" /\ last.ok) =>
        /\ \A k \in DOMAIN last.acc, m \in 1..MViews, i \in DOMAIN RowsOf(last) :
              RowMasked(m, RowsOf(last)[i]) =>
                  /\ last.acc[k][m].prec[i] = Zero
                  /\ last.acc[k][m].num[i] = Zero
                  /\ kind = "SZ" => last.acc[k][m].cross[i] = Zero
        /\ last.full =>
              \A m \in 1..MViews, n \in 1..NRows, d \in 1..DFeat :
                  nbr.mask[m][n][d] => nbr.tau[m][n][d] = Zero

C5_Witness ==
    /\ last.op = "updateParameters" /\ last.ok /\ last.acc # <<>>
    /\ \E i \in DOMAIN RowsOf(last) :
          /\ RowMasked(1, RowsOf(last)[i])
          /\ \E k \in DOMAIN last.acc : last.acc[k][2].prec[i] # Zero

\* C6 as stated: after an SZ updateParameters call in stochastic mode (ix a
\* strict subset of the rows) var_B0[n,k] = 1/Alpha[n,k] and mean_B0[n,k] = 0
\* for every row n in 0..N-1, not only for the rows in ix.
AlphaOfNode ==
    IF "AlphaZ" \in blanket THEN nbr.AlphaZ
    ELSE MapArr(RInv, IF kind = "Z" THEN P.var ELSE P.var_B1)

SZStochastic(l) ==
    /\ kind = "SZ" /\ l.op = "updateParameters" /\ l.ok
    /\ ~l.full /\ StrictSubset(l.ix)

C6_OffBranchEveryRow ==
    SZStochastic(last) =>
        \A n \in 1..NRows, k \in 1..dim[2] :
            /\ Q.var_B0[n][k] = RInv(AlphaOfNode[n][k])
            /\ Q.mean_B0[n][k] = Zero

\* C6 amended: after an SZ updateParameters call in stochastic mode,
\* mean_B0[n,k] = 0 for every row n; var_B0[n,k] = 1/Alpha[n,k] for the rows
\* n in ix only; every row outside ix keeps its previous var_B0, mean_B1,
\* var_B1 and theta.
C6_OffBranchRowsOfBatch ==
    [][(calls' = calls + 1 /\ SZStochastic(last')) =>
        LET rows == {last'.ix[i] : i \in DOMAIN last'.ix}
        IN  /\ \A n \in 1..NRows, k \in 1..dim[2] : Q'.mean_B0[n][k] = Zero
            /\ \A n \in rows, k \in 1..dim[2] :
                  Q'.var_B0[n][k] = RInv(AlphaOfNode[n][k])
            /\ \A n \in (1..NRows) \ rows :
                  /\ Q'.var_B0[n] = Q.var_B0[n]
                  /\ Q'.mean_B1[n] = Q.mean_B1[n]
                  /\ Q'.var_B1[n] = Q.var_B1[n]
                  /\ Q'.theta[n] = Q.theta[n]]_vars

C6_Witness ==
    /\ SZStochastic(last) /\ dim[2] >= 2
    /\ \E n \in 1..NRows :
          /\ \A i \in DOMAIN last.ix : last.ix[i] # n
          /\ \E k \in 1..dim[2] : Q.var_B0[n][k] # RInv(AlphaOfNode[n][k])
    /\ \E i \in DOMAIN last.ix : Q.theta[last.ix[i]] # Full(1, dim[2], Half)[1]

ZPass(l) == kind = "Z" /\ l.op = "updateParameters" /\ l.ok

C8_ReadsStartOfPass ==
    [][(calls' = calls + 1 /\ ZPass(last')) =>
        \A k \in 1..dim[2] :
            LET keep == Kept(dim[2], {k})
            IN  \A j \in DOMAIN keep, i \in DOMAIN RowsOf(last') :
                    last'.reads[k][j][i] = Q.mean[RowsOf(last')[i]][keep[j]]]_vars

\* C8 amended: within one Z updateParameters pass over k = 0..K-1 in
\* ascending order the leave-one-out residual of factor k uses the mean
\* already refreshed in this pass for every k' < k and the mean held at the
\* start of the pass for every k' > k.
C8_ReadsInPlace ==
    [][(calls' = calls + 1 /\ ZPass(last')) =>
        \A k \in 1..dim[2] :
            LET keep == Kept(dim[2], {k})
            IN  \A j \in DOMAIN keep, i \in DOMAIN RowsOf(last') :
                    last'.reads[k][j][i] =
                        IF keep[j] < k THEN Q'.mean[RowsOf(last')[i]][keep[j]]
                                       ELSE Q.mean[RowsOf(last')[i]][keep[j]]]_vars

C8_Witness ==
    /\ ZPass(last) /\ Len(last.reads) >= 2
    /\ last.reads[2][1] # Col(last.start, 1)
    /\ last.reads[2][1] = Col(Restrict(Q.mean, RowsOf(last)), 1)

\* C9: within one SZ updateParameters call the factors are updated in
\* increasing order as one in-place sweep: the cross term t2 of factor k is
\* computed from the SZ columns already rewritten in this call (as
\* theta[:,k'] * mean_on[:,k']) for every k' < k, from the SZ columns as they
\* were before the call for every k' > k, and never from column k.
SZPass(l) == kind = "SZ" /\ l.op = "updateParameters" /\ l.ok

C9_InPlaceSweep ==
    [][(calls' = calls + 1 /\ SZPass(last')) =>
        \A k \in 1..dim[2] :
            LET keep == Kept(dim[2], {k})
            IN  /\ Len(last'.reads[k]) = dim[2] - 1
                /\ \A j \in DOMAIN keep : keep[j] # k
                /\ \A j \in DOMAIN keep, i \in DOMAIN RowsOf(last') :
                      LET n == RowsOf(last')[i]
                      IN  last'.reads[k][j][i] =
                              IF keep[j] < k
                              THEN RMul(Q'.theta[n][keep[j]], Q'.mean_B1[n][keep[j]])
                              ELSE RMul(Q.theta[n][keep[j]], Q.mean_B1[n][keep[j]])]_vars

C9_Witness ==
    /\ SZPass(last) /\ Len(last.reads) >= 2
    /\ last.reads[2][1] # Col(last.start, 1)
    /\ last.reads[1][1] = Col(last.start, 2)
    /\ \E n \in DOMAIN last.reads[2][1] : last.reads[2][1][n] # Zero

\* C10: if an updateParameters call fails (a mandatory neighbor missing, or
\* ix referencing a row outside 0..N-1) the node's state is the same as
\* before the call: Q is unchanged and mini_batch is unchanged, whichever
\* optional neighbors are present.
C10_FailedCallChangesNothing ==
    [][(UpdateStep /\ ~last'.ok) => (Q' = Q /\ mini_batch' = mini_batch)]_vars

====
